---- MODULE Spec2Model ----
(***************************************************************************)
(* Upload-session orchestrator of backend/services/minio_multipart.py and  *)
(* backend/endpoints/upload.py: chunk planning, initiate, presign,         *)
(* complete and abort against an S3-compatible object store.               *)
(*                                                                         *)
(* Sizes are byte counts.  TLC integers are 32 bit, so the configurations  *)
(* and file sizes enumerated below keep every intermediate value of the    *)
(* planner under 2^31; Python's math.ceil(a / b) is exact for a < 2^53 and *)
(* is modelled by exact integer arithmetic.                                *)
(***************************************************************************)
EXTENDS Integers, Sequences, FiniteSets, TLC

VARIABLES
    chunk_size_mb,   \* MinioMultipartService.chunk_size_mb (CHUNK_SIZE_MB)
    max_parts,       \* MinioMultipartService.max_parts (MAX_PARTS)
    store,           \* the object store's multipart sessions, by allocation order
    issued,          \* total_parts of the session each initiate returned, per store session
    call             \* the last request handled and its outcome

vars == <<chunk_size_mb, max_parts, store, issued, call>>

----------------------------------------------------------------------------
(* Bounds of the model *)

\* largest small MAX_PARTS configured (the default is configured as well)
MaxPartsCfg == 3
\* multipart sessions the store allocates in one behaviour
MaxSessions == 2
\* largest part number uploaded or submitted
MaxPartNo == 3
\* sessions one lifecycle follows
MaxLifecycleSessions == 1
\* longest part list submitted to complete during a session's lifecycle
MaxSubmitted == 2
\* longest part list whose completion payload is compared across reorderings
MaxPermuted == 3

\* CHUNK_SIZE_MB values configured: below the 5 MiB floor, small, the default, above the ceiling
ChunkSizeMbCfg == {1, 8, 128, 600}

\* MAX_PARTS when the environment does not set it
DefaultMaxParts == 10000

----------------------------------------------------------------------------
(* Chunk planner *)

MiB == 1024 * 1024

\* Python's None
None == "<None>"

\* math.ceil(a / b) for b > 0 (\div rounds towards minus infinity)
Ceil(a, b) == -((-a) \div b)

min_chunk == 5 * MiB
max_chunk == 512 * MiB
preferred == chunk_size_mb * MiB

Min2(a, b) == IF a <= b THEN a ELSE b

\* the rounding of min_required to a multiple of 16 MiB
aligned(min_required) == ((min_required \div (16 * MiB)) + 1) * (16 * MiB)

\* the planner with the part-limit test off by one
calculate_optimal_chunk_size_strict(file_size) ==
    LET parts_needed == Ceil(file_size, preferred) IN
    IF parts_needed < max_parts
    THEN preferred
    ELSE LET min_required == Ceil(file_size, max_parts)
         IN  Min2(aligned(min_required), max_chunk)

calculate_optimal_chunk_size(file_size) ==
    LET parts_needed == Ceil(file_size, preferred) IN
    IF parts_needed <= max_parts
    THEN preferred
    ELSE LET min_required == Ceil(file_size, max_parts)
         IN  Min2(aligned(min_required), max_chunk)

----------------------------------------------------------------------------
(* Object store: multipart-initiate *)

\* the UploadId the store gives its n-th session
UploadIdOf(n) == "upload-" \o ToString(n)

\* An UploadId element of the response document: absent, present without text, or
\* present with the new session's id
ElemShapes == {"absent", "empty", "id"}

\* What the store call of _create_multipart_upload can end in: an S3Error, another
\* exception (connection failure, unreadable body), or a response document with a
\* namespaced and/or a bare UploadId element
CreateReplies ==
    {[kind |-> "S3Error"], [kind |-> "other"]}
    \cup {[kind |-> "ok", ns |-> a, bare |-> b] : a \in ElemShapes, b \in ElemShapes}

ElemText(shape, id) == IF shape = "id" THEN id ELSE None

\* _create_multipart_upload after the store answered with document reply
\* for a session with identifier id
ParseUploadId(reply, id) ==
    LET upload_id_elem == IF reply.ns # "absent" THEN reply.ns ELSE reply.bare IN
    IF upload_id_elem # "absent"
    THEN [kind |-> "returned", upload_id |-> ElemText(upload_id_elem, id)]
    ELSE [kind |-> "raised", error |-> "Exception"]

\* the store creates a session for the requested object exactly when the request
\* reaches it and is accepted
StoreCreate(object_key, reply) ==
    IF reply.kind = "ok"
    THEN Append(store, [state |-> "open", uploaded |-> {}, object_key |-> object_key])
    ELSE store

----------------------------------------------------------------------------
(* initiate *)

\* clock readings are instants of 1/TicksPerSecond second; the format %S is the
\* finest field of the timestamp
TicksPerSecond == 2
MaxInstant == 3
Instants == 0..MaxInstant

\* datetime.strftime("%Y%m%d_%H%M%S"), for instants of the first minute of a day
strftime(now) ==
    LET second == now \div TicksPerSecond IN
    "20240101_0000" \o (IF second < 10 THEN "0" ELSE "") \o ToString(second)

\* the key initiate_upload targets: the caller's, or timestamp and file name
object_key_of(object_key, file_name, now) ==
    IF object_key = None
    THEN LET timestamp == strftime(now) IN timestamp \o "_" \o file_name
    ELSE object_key

\* MinioMultipartService.initiate_upload
service_initiate_upload(file_name, file_size, object_key, now, reply) ==
    LET chunk_size  == calculate_optimal_chunk_size(file_size)
        total_parts == Ceil(file_size, chunk_size)
        created     == IF reply.kind = "ok"
                       THEN ParseUploadId(reply, UploadIdOf(Len(store) + 1))
                       ELSE [kind |-> "raised", error |-> reply.kind]
    IN  IF created.kind = "raised"
        THEN created
        ELSE [kind |-> "returned", upload_id |-> created.upload_id,
              object_key |-> object_key_of(object_key, file_name, now),
              chunk_size |-> chunk_size, total_parts |-> total_parts]

\* POST /api/upload/initiate: InitiateResponse requires upload_id to be a string
endpoint_initiate(result) ==
    IF result.kind = "returned" /\ result.upload_id # None THEN 200 ELSE 500

\* the endpoint passes file name, size and content type: never an object key
Initiate(file_name, file_size, now, reply) ==
    /\ Len(store) < MaxSessions
    /\ LET result == service_initiate_upload(file_name, file_size, None, now, reply) IN
       /\ call' = [op |-> "initiate", file_name |-> file_name,
                   file_size |-> file_size, now |-> now, reply |-> reply,
                   svc |-> result, http |-> endpoint_initiate(result)]
       /\ store' = StoreCreate(object_key_of(None, file_name, now), reply)
       /\ issued' = IF reply.kind = "ok"
                    THEN Append(issued, IF endpoint_initiate(result) = 200
                                        THEN result.total_parts ELSE -1)
                    ELSE issued
    /\ UNCHANGED <<chunk_size_mb, max_parts>>

----------------------------------------------------------------------------

\* file sizes requested: around multiples of 1 MiB, negative and zero included
FileSizeMiBs == {-1, 0, 1, 5, 8, 16, 24, 32, 48, 64, 128, 256, 384, 512, 600,
                 1024, 1200, 1536, 1800, 2000}
FileSizes == {k * MiB + d : k \in FileSizeMiBs, d \in {-1, 0, 1}}

Init ==
    /\ chunk_size_mb \in ChunkSizeMbCfg
    /\ max_parts \in (1..MaxPartsCfg) \cup {DefaultMaxParts}
    /\ store = <<>>
    /\ issued = <<>>
    /\ call = [op |-> "none"]

\* construction with no CHUNK_SIZE_MB and no MAX_PARTS in the environment
InitDefault == Init /\ chunk_size_mb = 128 /\ max_parts = DefaultMaxParts

\* the planner is examined against a store that answers every multipart-initiate
\* with a well-formed document
PlanReplies ==
    {r \in CreateReplies : r.kind = "ok" /\ r.ns = "id" /\ r.bare = "absent"}

\* file names requested
FileNames == {"a.bin", "b.bin"}

PlanNext ==
    \E file_size \in FileSizes, reply \in PlanReplies :
        Initiate("a.bin", file_size, 0, reply)

SpecPlan == Init /\ [][PlanNext]_vars

----------------------------------------------------------------------------
(* Text: strings are sequences of one-character strings *)

DigitChars == <<"0", "1", "2", "3", "4", "5", "6", "7", "8", "9">>
IsDigit(c) == \E i \in 1..10 : DigitChars[i] = c
DigitValue(c) == (CHOOSE i \in 1..10 : DigitChars[i] = c) - 1

\* str(n) for n >= 0
RECURSIVE Decimal(_)
Decimal(n) ==
    IF n < 10 THEN <<DigitChars[n + 1]>>
    ELSE Append(Decimal(n \div 10), DigitChars[(n % 10) + 1])

\* str(n)
Str(n) == IF n < 0 THEN <<"-">> \o Decimal(-n) ELSE Decimal(n)

\* s.split(","): the pieces between consecutive commas
Split(s) ==
    LET commas == SelectSeq([i \in 1..Len(s) |-> i], LAMBDA i : s[i] = ",")
        starts == <<0>> \o commas
        ends   == Append(commas, Len(s) + 1)
    IN  [j \in 1..Len(starts) |-> SubSeq(s, starts[j] + 1, ends[j] - 1)]

\* p.strip()
Strip(p) ==
    LET ink == {i \in 1..Len(p) : p[i] # " "} IN
    IF ink = {} THEN <<>>
    ELSE LET lo == CHOOSE i \in ink : \A j \in ink : i <= j
             hi == CHOOSE i \in ink : \A j \in ink : j <= i
         IN  SubSeq(p, lo, hi)

RECURSIVE DigitsValue(_, _, _)
DigitsValue(t, i, acc) ==
    IF i > Len(t) THEN acc ELSE DigitsValue(t, i + 1, acc * 10 + DigitValue(t[i]))

\* int(t) of a stripped token: an optional sign and at least one digit, or ValueError
IsInt(t) ==
    LET body == IF Len(t) > 0 /\ t[1] \in {"-", "+"} THEN Tail(t) ELSE t IN
    Len(body) > 0 /\ \A i \in 1..Len(body) : IsDigit(body[i])
IntOf(t) ==
    IF t[1] = "-" THEN -DigitsValue(Tail(t), 1, 0)
    ELSE IF t[1] = "+" THEN DigitsValue(Tail(t), 1, 0)
    ELSE DigitsValue(t, 1, 0)

\* ",".join(ps[lo..hi])
RECURSIVE JoinRange(_, _, _)
JoinRange(ps, lo, hi) ==
    IF lo > hi THEN <<>>
    ELSE IF lo = hi THEN ps[lo]
    ELSE LET mid == (lo + hi) \div 2
         IN  JoinRange(ps, lo, mid) \o <<",">> \o JoinRange(ps, mid + 1, hi)
Join(ps) == JoinRange(ps, 1, Len(ps))

----------------------------------------------------------------------------
(* presign *)

\* parts a batch may hold
MaxBatch == 100
\* PRESIGN_EXPIRY_HOURS when the environment does not set it
PresignExpiryHours == 24

\* get_presigned_url: the signed PUT URL, by what it grants
generate_presigned_url_for_part(upload_id, part_number) ==
    [uploadId |-> upload_id, partNumber |-> Str(part_number)]

\* generate_batch_presigned_urls with utcnow() = now, one grant per list element
\* but the last
generate_batch_presigned_urls_short(upload_id, part_numbers, now) ==
    LET expires_at == now + PresignExpiryHours IN
    [i \in 1..(Len(part_numbers) - 1) |->
        [part_number |-> part_numbers[i],
         url |-> generate_presigned_url_for_part(upload_id, part_numbers[i]),
         expires_at |-> expires_at]]

\* generate_batch_presigned_urls with utcnow() = now
generate_batch_presigned_urls(upload_id, part_numbers, now) ==
    LET expires_at == now + PresignExpiryHours IN
    [i \in 1..Len(part_numbers) |->
        [part_number |-> part_numbers[i],
         url |-> generate_presigned_url_for_part(upload_id, part_numbers[i]),
         expires_at |-> expires_at]]

\* the non-blank stripped tokens of the query parameter
Tokens(part_numbers) ==
    LET pieces == Split(part_numbers) IN
    SelectSeq([i \in 1..Len(pieces) |-> Strip(pieces[i])], LAMBDA t : t # <<>>)

\* GET /api/upload/presign.  The two HTTPException(400) raised inside the try
\* block are caught by its "except Exception" and leave as 500.
get_presigned_urls(upload_id, part_numbers, now) ==
    LET tokens == Tokens(part_numbers) IN
    IF \E i \in 1..Len(tokens) : ~IsInt(tokens[i])
    THEN [http |-> 400, detail |-> "Invalid part numbers format", urls |-> <<>>]
    ELSE LET parts == [i \in 1..Len(tokens) |-> IntOf(tokens[i])] IN
         IF Len(parts) = 0
         THEN [http |-> 500, detail |-> "No valid part numbers provided", urls |-> <<>>]
         ELSE IF Len(parts) > MaxBatch
         THEN [http |-> 500, detail |-> "Maximum 100 parts per request", urls |-> <<>>]
         ELSE [http |-> 200, detail |-> "",
               urls |-> generate_batch_presigned_urls(upload_id, parts, now)]

Presign(upload_id, part_numbers, now) ==
    /\ call' = [op |-> "presign", upload_id |-> upload_id, part_numbers |-> part_numbers,
                res |-> get_presigned_urls(upload_id, part_numbers, now)]
    /\ UNCHANGED <<chunk_size_mb, max_parts, store, issued>>

\* longest short query string
MaxStrLen == 3
Alphabet == {"1", "0", "-", ",", " "}
RECURSIVE Strings(_)
Strings(n) ==
    IF n = 0 THEN {<<>>}
    ELSE Strings(n - 1) \cup {Append(s, c) : s \in {t \in Strings(n - 1) : Len(t) = n - 1}, c \in Alphabet}

\* "1,2,...,k"
Batch(k) == Join([i \in 1..k |-> Str(i)])
BatchSizes == {2, 3, MaxBatch - 1, MaxBatch, MaxBatch + 1}

\* query strings requested: every short string, and batches around the limit
\* followed by at most one more character
PresignInputs ==
    Strings(MaxStrLen) \cup {Batch(k) \o t : k \in BatchSizes, t \in Strings(1)}

\* the utcnow() reading of a call, in hours
Clock == {0}

PresignNext ==
    \E part_numbers \in PresignInputs, now \in Clock : Presign(UploadIdOf(1), part_numbers, now)

SpecPresign == InitDefault /\ [][PresignNext]_vars

----------------------------------------------------------------------------
(* Object store: part upload, complete, abort *)

PartNos == 1..MaxPartNo

\* the ETag the store assigns to an uploaded part
ETagOf(pn) == "etag-" \o ToString(pn)

\* index of the store session named by upload_id, 0 when the store knows none
SessionOf(upload_id) ==
    IF \E i \in 1..Len(store) : UploadIdOf(i) = upload_id
    THEN CHOOSE i \in 1..Len(store) : UploadIdOf(i) = upload_id
    ELSE 0

IsOpen(upload_id) ==
    SessionOf(upload_id) # 0 /\ store[SessionOf(upload_id)].state = "open"

\* PUT ?partNumber=N&uploadId=U against a presigned URL, done by the Agent; presign
\* issues a URL for any part number of any upload id
UploadPart(upload_id, pn) ==
    /\ IsOpen(upload_id)
    /\ pn \notin store[SessionOf(upload_id)].uploaded
    /\ store' = [store EXCEPT ![SessionOf(upload_id)].uploaded = @ \cup {pn}]
    /\ call' = [op |-> "put", upload_id |-> upload_id, part_number |-> pn]
    /\ UNCHANGED <<chunk_size_mb, max_parts, issued>>

\* The store accepts a completion payload for an open session when it lists at least
\* one part, in strictly ascending part-number order, each part uploaded and named
\* with the ETag the store gave it
StoreAccepts(upload_id, payload) ==
    /\ IsOpen(upload_id)
    /\ Len(payload) > 0
    /\ \A i \in 1..Len(payload) :
           /\ IsInt(payload[i].PartNumber)
           /\ IntOf(payload[i].PartNumber) \in store[SessionOf(upload_id)].uploaded
           /\ payload[i].ETag = ETagOf(IntOf(payload[i].PartNumber))
    /\ \A i \in 1..(Len(payload) - 1) :
           IntOf(payload[i].PartNumber) < IntOf(payload[i + 1].PartNumber)

\* How a store call can end beyond the store's own verdict: "answer" lets the store
\* decide, "S3Error" is an error response whatever the request, "error200" is an
\* HTTP 200 whose body is an error document, "other" is an exception that is no
\* S3Error (connection failure)
CompleteReplies ==
    {[kind |-> "answer", etag |-> e] : e \in {"ns", "bare"}}
    \cup {[kind |-> "S3Error"], [kind |-> "error200"], [kind |-> "other"]}
AbortReplies == {[kind |-> "answer"], [kind |-> "S3Error"], [kind |-> "other"]}

\* the final object's ETag
FinalETag(upload_id) == "etag-of-" \o upload_id

StoreCompletes(upload_id, payload, reply) ==
    reply.kind = "answer" /\ StoreAccepts(upload_id, payload)

StoreAborts(upload_id, reply) == reply.kind = "answer" /\ IsOpen(upload_id)

\* a finalized session keeps no part data
Finalize(upload_id, state) ==
    [store EXCEPT ![SessionOf(upload_id)].state = state,
                  ![SessionOf(upload_id)].uploaded = {}]

----------------------------------------------------------------------------
(* complete *)

\* sorted(parts, key=part_number) left as submitted
sorted_parts_unsorted(parts) == parts

\* sorted(parts, key=part_number): stable, equal keys keep their submitted order
RECURSIVE sorted_parts(_)
sorted_parts(parts) ==
    IF Len(parts) = 0 THEN <<>>
    ELSE LET init == sorted_parts(SubSeq(parts, 1, Len(parts) - 1))
             last == parts[Len(parts)]
             k    == Cardinality({i \in 1..Len(init) :
                                     init[i].part_number <= last.part_number})
         IN  SubSeq(init, 1, k) \o <<last>> \o SubSeq(init, k + 1, Len(init))

\* the CompleteMultipartUpload document: one Part element per submitted part
CompletePayload(parts) ==
    LET sorted == sorted_parts(parts) IN
    [i \in 1..Len(sorted) |->
        [PartNumber |-> Str(sorted[i].part_number), ETag |-> sorted[i].etag]]

\* MinioMultipartService.complete_upload, given how the store call ended
service_complete_upload(upload_id, parts, reply) ==
    LET body == CompletePayload(parts) IN
    IF reply.kind = "other" THEN [kind |-> "raised", error |-> "other"]
    ELSE IF reply.kind = "S3Error" THEN [kind |-> "raised", error |-> "S3Error"]
    ELSE IF reply.kind = "answer" /\ ~StoreAccepts(upload_id, body)
    THEN [kind |-> "raised", error |-> "S3Error"]
    ELSE LET final_etag == IF reply.kind = "answer" THEN FinalETag(upload_id) ELSE None
         IN  [kind |-> "returned", status |-> "completed",
              final_etag |-> final_etag, verified |-> TRUE]

\* POST /api/upload/complete
endpoint_complete(result) == IF result.kind = "returned" THEN 200 ELSE 500

Complete(upload_id, parts, reply) ==
    LET body   == CompletePayload(parts)
        result == service_complete_upload(upload_id, parts, reply)
    IN  /\ call' = [op |-> "complete", upload_id |-> upload_id, parts |-> parts,
                    body |-> body, svc |-> result, http |-> endpoint_complete(result)]
        /\ store' = IF StoreCompletes(upload_id, body, reply)
                    THEN Finalize(upload_id, "completed")
                    ELSE store
        /\ UNCHANGED <<chunk_size_mb, max_parts, issued>>

----------------------------------------------------------------------------
(* abort *)

\* MinioMultipartService.abort_upload: only S3Error is caught
service_abort_upload(upload_id, reply) ==
    IF reply.kind = "other" THEN [kind |-> "raised", error |-> "other"]
    ELSE IF StoreAborts(upload_id, reply) THEN [kind |-> "returned", value |-> TRUE]
    ELSE [kind |-> "returned", value |-> FALSE]

\* POST /api/upload/abort
endpoint_abort(result) ==
    IF result.kind = "returned" /\ result.value THEN 200 ELSE 500

Abort(upload_id, reply) ==
    LET result == service_abort_upload(upload_id, reply) IN
    /\ call' = [op |-> "abort", upload_id |-> upload_id, reply |-> reply.kind,
                acknowledged |-> StoreAborts(upload_id, reply),
                svc |-> result, http |-> endpoint_abort(result)]
    /\ store' = IF StoreAborts(upload_id, reply)
                THEN Finalize(upload_id, "aborted")
                ELSE store
    /\ UNCHANGED <<chunk_size_mb, max_parts, issued>>

----------------------------------------------------------------------------
(* The session lifecycle at the default configuration *)

\* file sizes of one and of two parts at the default chunk size
LifecycleSizes == {1, 128 * MiB + 1}

UploadIds == {UploadIdOf(i) : i \in 1..MaxLifecycleSessions}

\* parts a caller submits: each part with the ETag the store gave it, and part 1
\* also with a stale ETag
SubmittedParts ==
    {[part_number |-> pn, etag |-> ETagOf(pn)] : pn \in PartNos}
    \cup {[part_number |-> 1, etag |-> "stale"]}

RECURSIVE PartLists(_)
PartLists(n) ==
    IF n = 0 THEN {<<>>}
    ELSE PartLists(n - 1)
         \cup {Append(l, q) : l \in {t \in PartLists(n - 1) : Len(t) = n - 1},
                              q \in SubmittedParts}

Next ==
    \/ \E file_size \in LifecycleSizes, reply \in CreateReplies :
          Len(store) < MaxLifecycleSessions /\ Initiate("a.bin", file_size, 0, reply)
    \/ \E upload_id \in UploadIds, pn \in PartNos : UploadPart(upload_id, pn)
    \/ \E upload_id \in UploadIds, parts \in PartLists(MaxSubmitted),
          reply \in CompleteReplies : Complete(upload_id, parts, reply)
    \/ \E upload_id \in UploadIds, reply \in AbortReplies : Abort(upload_id, reply)

Spec == InitDefault /\ [][Next]_vars

\* complete alone, on longer part lists: the store knows no session, so it rejects
\* the request when the request reaches it
PayloadReplies == {[kind |-> "answer", etag |-> "ns"], [kind |-> "other"]}

CompleteNext ==
    \E parts \in PartLists(MaxPermuted), reply \in PayloadReplies :
        Complete(UploadIdOf(1), parts, reply)

SpecComplete == InitDefault /\ [][CompleteNext]_vars

\* key generation is examined with initiate calls alone, each reading the clock
\* on its own: two calls may read the same instant, or instants of one second
KeysNext ==
    \E file_name \in FileNames, file_size \in LifecycleSizes, now \in Instants,
       reply \in PlanReplies :
        Initiate(file_name, file_size, now, reply)

SpecKeys == InitDefault /\ [][KeysNext]_vars

----------------------------------------------------------------------------
(* Claims about planning and initiate, checked under SpecPlan *)

Initiated == call.op = "initiate"
Returned == Initiated /\ call.svc.kind = "returned"

\* C1: for every fileSize >= 1 an initiate never returns a session whose
\* totalParts exceeds maxParts; when ceil(fileSize / 512 MiB) > maxParts the
\* call fails with PlanningError instead.
C1_PartCeilingEnforced ==
    (Initiated /\ call.file_size >= 1) =>
        /\ Returned => call.svc.total_parts <= max_parts
        /\ Ceil(call.file_size, max_chunk) > max_parts =>
               (call.svc.kind = "raised" /\ call.svc.error = "PlanningError")

\* C2: initiate with fileSize <= 0 fails with InvalidInput (HTTP 400), returns
\* no session, and issues no createSession: the store is left as it was.
C2_NonPositiveSizeRejected ==
    [][(call'.op = "initiate" /\ call'.file_size <= 0) =>
           /\ call'.svc.kind = "raised"
           /\ call'.svc.error = "InvalidInput"
           /\ call'.http = 400
           /\ store' = store]_vars

\* C3: for every fileSize >= 1 and every configuration, a returned chunkSize
\* lies in [5 MiB, 512 MiB].
C3_ChunkSizeInRange ==
    (Returned /\ call.file_size >= 1) =>
        (min_chunk <= call.svc.chunk_size /\ call.svc.chunk_size <= max_chunk)

\* smallest multiple of 16 MiB that is >= x
RoundUp16(x) == Ceil(x, 16 * MiB) * (16 * MiB)

\* C4: when ceil(fileSize / preferred) > maxParts and the aligned size does not
\* exceed 512 MiB, chunkSize is the smallest multiple of 16 MiB that is
\* >= ceil(fileSize / maxParts).
C4_SmallestAlignedChunk ==
    (/\ Returned
     /\ call.file_size >= 1
     /\ Ceil(call.file_size, preferred) > max_parts
     /\ RoundUp16(Ceil(call.file_size, max_parts)) <= max_chunk) =>
        call.svc.chunk_size = RoundUp16(Ceil(call.file_size, max_parts))

\* fileSize <= preferred * maxParts, written without the product
InPreferredRange(file_size) == (file_size - 1) \div preferred < max_parts

\* C5: for every fileSize in [1, preferred * maxParts] a returned session has
\* chunkSize = preferred, 1 <= totalParts <= maxParts and
\* (totalParts - 1) * chunkSize < fileSize <= totalParts * chunkSize; 1 GiB at
\* the defaults gives chunkSize 134217728 and totalParts 8.
C5_PreferredChunking ==
    (Returned /\ call.file_size >= 1 /\ InPreferredRange(call.file_size)) =>
        LET cs == call.svc.chunk_size
            tp == call.svc.total_parts
        IN  /\ cs = preferred
            /\ 1 <= tp /\ tp <= max_parts
            /\ (tp - 1) * cs < call.file_size
            /\ call.file_size - (tp - 1) * cs <= cs
            /\ (chunk_size_mb = 128 /\ max_parts = DefaultMaxParts
                   /\ call.file_size = 1073741824) =>
                   (cs = 134217728 /\ tp = 8)

\* a 1 GiB file planned at the defaults, and a file of exactly preferred * maxParts bytes
C5_Witness ==
    /\ Returned
    /\ \/ /\ chunk_size_mb = 128 /\ max_parts = DefaultMaxParts
          /\ call.file_size = 1073741824
          /\ call.svc.total_parts = 8
       \/ /\ max_parts <= MaxPartsCfg
          /\ call.file_size = preferred * max_parts
          /\ call.svc.total_parts = max_parts
    /\ call.http = 200

----------------------------------------------------------------------------
(* Claims about presign, checked under SpecPresign *)

Presigned == call.op = "presign"

\* the part numbers a query string asks for, when every token parses
Requested(part_numbers) ==
    LET tokens == Tokens(part_numbers) IN [i \in 1..Len(tokens) |-> IntOf(tokens[i])]
AllParse(part_numbers) ==
    LET tokens == Tokens(part_numbers) IN \A i \in 1..Len(tokens) : IsInt(tokens[i])

\* C6: presignBatch answers HTTP 400 and issues no grant when the part-number list
\* holds no number, holds an unparsable token, holds more than 100 numbers, or
\* holds a number that is not positive; none of these is answered with HTTP 500.
C6_MalformedBatchRejected ==
    Presigned =>
        LET tokens == Tokens(call.part_numbers) IN
        (\/ Len(tokens) = 0
         \/ ~AllParse(call.part_numbers)
         \/ Len(tokens) > MaxBatch
         \/ \E i \in 1..Len(tokens) : IsInt(tokens[i]) /\ IntOf(tokens[i]) <= 0)
        => (call.res.http = 400 /\ call.res.urls = <<>>)

\* C7: presignBatch with N unique positive part numbers, 1 <= N <= 100, returns
\* exactly N grants, exactly one per requested number and none for another number,
\* each for that part of the named upload, all with the same expiresAt.
C7_OneGrantPerPart ==
    (/\ Presigned
     /\ AllParse(call.part_numbers)
     /\ LET req == Requested(call.part_numbers) IN
        /\ 1 <= Len(req) /\ Len(req) <= MaxBatch
        /\ \A i \in 1..Len(req) : req[i] >= 1
        /\ \A i, j \in 1..Len(req) : req[i] = req[j] => i = j) =>
        LET req  == Requested(call.part_numbers)
            urls == call.res.urls
        IN  /\ call.res.http = 200
            /\ Len(urls) = Len(req)
            /\ \A i \in 1..Len(req) :
                   Cardinality({j \in 1..Len(urls) : urls[j].part_number = req[i]}) = 1
            /\ \A j \in 1..Len(urls) :
                   /\ \E i \in 1..Len(req) : req[i] = urls[j].part_number
                   /\ urls[j].url.partNumber = Str(urls[j].part_number)
                   /\ urls[j].url.uploadId = call.upload_id
                   /\ urls[j].expires_at = urls[1].expires_at

\* a full batch of 100 parts was granted
C7_Witness ==
    /\ Presigned
    /\ call.part_numbers = Batch(MaxBatch)
    /\ call.res.http = 200
    /\ Len(call.res.urls) = MaxBatch
    /\ call.res.urls[MaxBatch].part_number = MaxBatch

----------------------------------------------------------------------------
(* Claims about complete and abort *)

Completing == call.op = "complete"

\* the reorderings of a part list
Reorderings(parts) ==
    {[i \in 1..Len(parts) |-> parts[f[i]]] : f \in Permutations(1..Len(parts))}

Ascending(body) ==
    \A i \in 1..(Len(body) - 1) :
        IntOf(body[i].PartNumber) <= IntOf(body[i + 1].PartNumber)

DistinctPartNumbers(parts) ==
    \A i, j \in 1..Len(parts) : parts[i].part_number = parts[j].part_number => i = j

\* C8 as claimed: for every part list and every reordering of it the completion
\* payload is the same, and it lists the parts in ascending partNumber order.
C8_OrderIndependentAnyList ==
    Completing =>
        /\ \A other \in Reorderings(call.parts) : CompletePayload(other) = call.body
        /\ Ascending(call.body)

\* C8 amended: for every part list with pairwise distinct part numbers and every
\* reordering of it the completion payload is the same, and every payload lists
\* its parts in ascending partNumber order.
C8_OrderIndependent ==
    Completing =>
        /\ DistinctPartNumbers(call.parts) =>
               \A other \in Reorderings(call.parts) : CompletePayload(other) = call.body
        /\ Ascending(call.body)

\* parts 3, 1, 2 were submitted in that order and sent as 1, 2, 3
C8_Witness ==
    /\ Completing
    /\ Len(call.parts) = 3
    /\ call.parts[1].part_number = 3
    /\ call.parts[2].part_number = 1
    /\ call.parts[3].part_number = 2
    /\ call.body[1].PartNumber = <<"1">>
    /\ call.body[3].PartNumber = <<"3">>

\* the submitted parts hold exactly one entry for each part number in 1..n
ExactlyOnePerPart(parts, n) ==
    /\ Len(parts) = n
    /\ \A k \in 1..n : Cardinality({i \in 1..Len(parts) : parts[i].part_number = k}) = 1

\* C9: for a session initiated with totalParts = n, a complete that the store
\* acknowledged reports status completed only when the submitted parts hold
\* exactly one etag for each partNumber in 1..n.
C9_CompleteNeedsEveryPart ==
    (/\ Completing
     /\ call.svc.kind = "returned"
     /\ call.svc.status = "completed"
     /\ call.svc.final_etag # None
     /\ SessionOf(call.upload_id) # 0
     /\ issued[SessionOf(call.upload_id)] >= 0) =>
        ExactlyOnePerPart(call.parts, issued[SessionOf(call.upload_id)])

\* C10: abort never raises: whatever the upload id and however the store call
\* ends, abort returns a boolean, and false when the store did not acknowledge.
C10_AbortNeverRaises ==
    call.op = "abort" =>
        /\ call.svc.kind = "returned"
        /\ call.svc.value \in BOOLEAN
        /\ ~call.acknowledged => call.svc.value = FALSE

----------------------------------------------------------------------------
(* Claims about the store's answers to complete and to multipart-initiate *)

\* C12: complete returns status completed with verified = true only when the
\* store's response carries the final ETag; a rejected request or a body with no
\* ETag element makes complete fail, never return verified = true with no
\* finalEtag.
C12_VerifiedNeedsETag ==
    (Completing /\ call.svc.kind = "returned") =>
        (call.svc.verified => call.svc.final_etag # None)

\* the response document carries the session's identifier where the lookup looks:
\* in the namespaced element, or in the bare one when no namespaced one is there
CarriesId(reply) ==
    reply.ns = "id" \/ (reply.ns = "absent" /\ reply.bare = "id")
\* the response document carries no identifier at all
CarriesNoId(reply) == reply.ns # "id" /\ reply.bare # "id"

\* C13: createSession returns the identifier of the store's response whether the
\* UploadId element is namespaced or bare, and fails when the response carries
\* no identifier, an empty UploadId element included; a returned session never
\* has an absent or empty uploadId.
C13_UploadIdPresent ==
    (Initiated /\ call.reply.kind = "ok") =>
        /\ CarriesId(call.reply) =>
               (call.svc.kind = "returned" /\ call.svc.upload_id # None)
        /\ CarriesNoId(call.reply) => call.svc.kind = "raised"
        /\ call.svc.kind = "returned" => call.svc.upload_id # None

----------------------------------------------------------------------------
(* Claims about generated object keys *)

\* the session the store holds at index i was returned to its caller and is live
LiveSession(i) == issued[i] >= 0 /\ store[i].state = "open"

\* C14: any two initiate calls that supply no objectKey, two calls with the same
\* fileName in the same clock second included, return sessions with different
\* objectKeys, so two live sessions never target the same object.
C14_DistinctObjectKeys ==
    \A i \in DOMAIN store, j \in DOMAIN store :
        (i # j /\ LiveSession(i) /\ LiveSession(j)) =>
            store[i].object_key # store[j].object_key

----------------------------------------------------------------------------
(* Claims about races of complete and abort on one session *)

\* Each handler makes one store call and keeps nothing between requests, and the
\* store serves the calls on one uploadId one at a time: an interleaving of
\* concurrent complete and abort calls is the sequence of their store calls, which
\* is the sequence of Complete and Abort steps.

\* call c reported a terminal success to its caller
TerminalSuccess(c) ==
    \/ c.op = "complete" /\ c.svc.kind = "returned" /\ c.svc.status = "completed"
    \/ c.op = "abort" /\ c.svc.kind = "returned" /\ c.svc.value

\* call c lost: a complete raised, an abort returned false
TerminalFailure(c) ==
    \/ c.op = "complete" /\ c.svc.kind = "raised"
    \/ c.op = "abort" /\ c.svc.kind = "returned" /\ ~c.svc.value

\* a terminal call on upload_id has succeeded: the store finalized the session (which
\* it does only within a complete that returns completed or an abort that returns
\* true), or the call just made reported it
Ended(upload_id) ==
    \/ SessionOf(upload_id) # 0 /\ store[SessionOf(upload_id)].state # "open"
    \/ call.op \in {"complete", "abort"} /\ call.upload_id = upload_id
       /\ TerminalSuccess(call)

\* C11: for one uploadId at most one terminal call succeeds: once a complete has
\* returned completed or an abort has returned true, every later or losing complete
\* on that uploadId raises and every later or losing abort returns false.
C11_OneTerminalSuccess ==
    [][\A upload_id \in UploadIds :
          (Ended(upload_id) /\ call'.op \in {"complete", "abort"}
           /\ call'.upload_id = upload_id) => TerminalFailure(call')]_vars

====
